---- MODULE Spec2Model ----
(***************************************************************************)
(* WakeyWakey alarm server (src/server/server.py).                         *)
(*                                                                         *)
(* Two processes share one sqlite database:                                *)
(*   - the scheduler (main / alarm_mode), a single long-lived loop;        *)
(*   - the command acceptor (communication), started by initialize, which  *)
(*     serves one connection at a time.                                    *)
(* Every database access of the code is one SQL statement on a one-row     *)
(* table, so each access is one atomic step of the model.  Time is counted *)
(* in whole seconds of UTC and advances only in the sleeps of the          *)
(* scheduler; database accesses and commands take no time.                 *)
(***************************************************************************)
EXTENDS Integers, Sequences, FiniteSets, TLC

VARIABLES
    db,            \* the sqlite database: the single row of each table
    now,           \* UTC clock, in seconds since midnight of the boot day
    pc,            \* position of the scheduler process (main / alarm_mode)
    active_read,   \* main: value returned by get_active_state() at this tick
    loaded,        \* seconds_until_wakeup_time: triple returned by load_settings
    tick_time,     \* get_local_time: value of `utc` read at this tick
    seconds_left,  \* main: seconds_left, alarm_mode: countdown
    window_read,   \* main: value returned by get_wakeup_window() at this tick
    buzzer1,       \* gpiozero.Buzzer on BUZZER_PIN_1 (TRUE = on)
    buzzer2,       \* gpiozero.Buzzer on BUZZER_PIN_2 (TRUE = on)
    polls,         \* number of main-loop delays slept so far
    rings,         \* number of play_sound calls so far
    aPc,           \* position of the acceptor process (communication)
    backlog,       \* connections queued on the listening socket, oldest first
    conn,          \* the accepted connection: message, replies sent, open flag
    ncmds,         \* number of connections made by clients so far
    silencedAt,    \* history: time of the last `set_alarm_state 0` processed
                   \* while the scheduler was in the ringing loop (-1: none)
    seen           \* history: the user_preferences rows stored at some
                   \* instant since the first read of the current poll tick

vars == <<db, now, pc, active_read, loaded, tick_time, seconds_left,
          window_read, buzzer1, buzzer2, polls, rings, aPc, backlog, conn,
          ncmds, silencedAt, seen>>

schedVars == <<pc, active_read, loaded, tick_time, seconds_left, window_read,
               buzzer1, buzzer2, polls, rings, now>>
commVars  == <<aPc, backlog, conn, ncmds>>

(***************************************************************************)
(* Program constants.                                                      *)
(***************************************************************************)
SECONDS_IN_A_DAY == 86400
MAIN_LOOP_DELAY_SECONDS == 5
SOUND_LOOPS == 1000
SOUND_DELAY_MS == 1
RING_SLEEP_SECONDS == 1
LISTEN_BACKLOG == 5

(***************************************************************************)
(* Bounds of the model.                                                    *)
(***************************************************************************)
MaxPolls == 2
MaxRings == 2
MaxCmds  == 3
MaxPending == 1

(***************************************************************************)
(* Text.  A token of a message and a reply body are sequences of           *)
(* one-character strings.                                                  *)
(***************************************************************************)
Digits == <<"0", "1", "2", "3", "4", "5", "6", "7", "8", "9">>

IsDigit(c) == \E i \in 1..10 : Digits[i] = c

DigitVal(c) == (CHOOSE i \in 1..10 : Digits[i] = c) - 1

\* value of a non-empty sequence of decimal digits
RECURSIVE DigitsVal(_)
DigitsVal(tok) ==
    IF Len(tok) = 0 THEN 0
    ELSE 10 * DigitsVal(SubSeq(tok, 1, Len(tok) - 1)) + DigitVal(tok[Len(tok)])

AllDigits(tok) == Len(tok) > 0 /\ \A i \in 1..Len(tok) : IsDigit(tok[i])

\* Python's int(str): an optional sign, then decimal digits; anything else
\* raises ValueError (ok = FALSE).
ParseInt(tok) ==
    IF Len(tok) > 0 /\ tok[1] \in {"-", "+"}
    THEN IF AllDigits(Tail(tok))
         THEN [ok |-> TRUE,
               val |-> IF tok[1] = "-" THEN 0 - DigitsVal(Tail(tok))
                                        ELSE DigitsVal(Tail(tok))]
         ELSE [ok |-> FALSE, val |-> 0]
    ELSE IF AllDigits(tok)
         THEN [ok |-> TRUE, val |-> DigitsVal(tok)]
         ELSE [ok |-> FALSE, val |-> 0]

\* Python's str(int) of a non-negative integer
RECURSIVE NatToStr(_)
NatToStr(n) ==
    IF n < 10 THEN <<Digits[n + 1]>>
    ELSE Append(NatToStr(n \div 10), Digits[(n % 10) + 1])

\* Python's str(int)
IntToStr(n) == IF n < 0 THEN <<"-">> \o NatToStr(0 - n) ELSE NatToStr(n)

(***************************************************************************)
(* Time arithmetic.                                                        *)
(***************************************************************************)
convert_to_seconds(days, hour, minutes, seconds) ==
    ((days * 24 + hour) * 60 + minutes) * 60 + seconds

\* arrow.utcnow().shift(hours=utc_offset).format("HH:mm:ss"), as the triple
\* of its three fields; utc is the clock value read
get_local_time(utc_offset, utc) ==
    LET t == (utc + utc_offset * 3600) % SECONDS_IN_A_DAY
    IN  <<t \div 3600, (t % 3600) \div 60, t % 60>>

current_time_in_seconds(utc_offset, utc) ==
    LET current_time_parsed == get_local_time(utc_offset, utc)
    IN  convert_to_seconds(0, current_time_parsed[1], current_time_parsed[2],
                           current_time_parsed[3])

\* faulty variant of seconds_until_wakeup_time: a wakeup time equal to the
\* current time counts as a whole day ahead
seconds_until_wakeup_time_next_day(settings, utc) ==
    LET wakeup_timestamp_in_seconds ==
            convert_to_seconds(0, settings[1], settings[2], 0)
        left == wakeup_timestamp_in_seconds
                  - current_time_in_seconds(settings[3], utc)
    IN  IF left <= 0 THEN left + SECONDS_IN_A_DAY ELSE left

\* seconds_until_wakeup_time, given the triple load_settings("minimal")
\* returned and the clock value read
seconds_until_wakeup_time(settings, utc) ==
    LET wakeup_timestamp_in_seconds ==
            convert_to_seconds(0, settings[1], settings[2], 0)
        left == wakeup_timestamp_in_seconds
                  - current_time_in_seconds(settings[3], utc)
    IN  IF left < 0 THEN left + SECONDS_IN_A_DAY ELSE left

\* duration of one play_sound call, in whole seconds
PlaySoundSeconds == (SOUND_LOOPS * 2 * SOUND_DELAY_MS) \div 1000

\* duration of one iteration of the ringing loop of alarm_mode
RingCycleSeconds == PlaySoundSeconds + RING_SLEEP_SECONDS

(***************************************************************************)
(* The database.                                                           *)
(***************************************************************************)
\* the row create_database inserts into user_preferences
DefaultPreferences ==
    [id |-> 1, wakeup_time_hour |-> 16, wakeup_time_minute |-> 0,
     utc_offset |-> 2, wakeup_window |-> 5, active_state |-> 0]

\* the row create_database inserts into server_settings
DefaultServerSettings == [id |-> 1, alarm_state |-> 0]

\* UPDATE table SET column = new_value WHERE id = 1
db_set(d, column, table, new_value) ==
    [d EXCEPT ![table][column] = new_value]

\* SELECT column FROM table, first row, first column
db_get(d, column, table) == d[table][column]

\* faulty variant of load_settings: the utc_offset of an earlier load is
\* used instead of the stored one
load_settings_stale_offset(d) ==
    <<d.user_preferences.wakeup_time_hour,
      d.user_preferences.wakeup_time_minute,
      loaded[3]>>

\* load_settings("minimal"): one SELECT of three columns of one row
load_settings(d) ==
    <<d.user_preferences.wakeup_time_hour,
      d.user_preferences.wakeup_time_minute,
      d.user_preferences.utc_offset>>

\* the CREATE TABLE text of user_preferences in sqlite_master, after
\* replace("\n    ", " ") and split(", "); each piece split at " "
UserPreferencesSqlParsed ==
    << <<"CREATE", "TABLE", "user_preferences(id", "INTEGER", "PRIMARY", "KEY">>,
       <<"wakeup_time_hour", "INTEGER">>,
       <<"wakeup_time_minute", "INTEGER">>,
       <<"utc_offset", "INTEGER">>,
       <<"wakeup_window", "INTEGER">>,
       <<"active_state", "INTEGER)">> >>

\* SELECT * FROM user_preferences, first row, in column order
SelectStar(d) ==
    <<d.user_preferences.id,
      d.user_preferences.wakeup_time_hour,
      d.user_preferences.wakeup_time_minute,
      d.user_preferences.utc_offset,
      d.user_preferences.wakeup_window,
      d.user_preferences.active_state>>

\* faulty variant of get_user_preferences: the id value is not removed
\* from the row before the zip
get_user_preferences_with_id(d) ==
    LET parsed == Tail(UserPreferencesSqlParsed)
    IN  [i \in 1..Len(parsed) |-> <<parsed[i][1], SelectStar(d)[i]>>]

\* faulty variant of get_user_preferences: the first piece of the parsed
\* CREATE TABLE text is not deleted before the column names are taken
get_user_preferences_with_head(d) ==
    LET parsed == UserPreferencesSqlParsed
        user_preferences_values_list == Tail(SelectStar(d))
    IN  [i \in 1..Len(user_preferences_values_list) |->
            <<parsed[i][1], user_preferences_values_list[i]>>]

\* get_user_preferences: the dict, as the sequence of its (key, value) items
get_user_preferences(d) ==
    LET parsed == Tail(UserPreferencesSqlParsed)
        user_preferences_column_names ==
            [i \in 1..Len(parsed) |-> parsed[i][1]]
        user_preferences_values_list == Tail(SelectStar(d))
        n == IF Len(user_preferences_column_names)
                  < Len(user_preferences_values_list)
             THEN Len(user_preferences_column_names)
             ELSE Len(user_preferences_values_list)
    IN  [i \in 1..n |-> <<user_preferences_column_names[i],
                          user_preferences_values_list[i]>>]

\* str(user_preferences): each item with its value as decimal text
DictToStr(items) ==
    [i \in 1..Len(items) |-> <<items[i][1], IntToStr(items[i][2])>>]

(***************************************************************************)
(* Messages.  A message is what recv returns, already split at " ": the    *)
(* verb, then the argument token if any.                                   *)
(***************************************************************************)
SetVerbs == {"set_alarm_state", "set_active_state", "set_wakeup_hour",
             "set_wakeup_minute", "set_wakeup_window", "set_utc_offset"}

KnownVerbs == SetVerbs \cup {"get_alarm_state", "get_user_preferences"}

\* the messages clients send: every verb, a value outside the valid range,
\* an unknown verb and a malformed argument
Messages ==
    { <<"get_alarm_state">>, <<"get_user_preferences">>,
      <<"set_alarm_state", <<"0">>>>, <<"set_alarm_state", <<"1">>>>,
      <<"set_active_state", <<"1">>>>, <<"set_active_state", <<"0">>>>,
      <<"set_wakeup_hour", <<"-", "2", "5">>>>,
      <<"set_wakeup_minute", <<"6", "0">>>>,
      <<"set_wakeup_window", <<"-", "1">>>>,
      <<"set_utc_offset", <<"1">>>>,
      <<"snooze">>, <<"set_wakeup_hour", <<"x">>>> }

\* the row of user_preferences of the scenarios: wakeup 07:00, offset 0
ScenarioPreferences ==
    [DefaultPreferences EXCEPT !.wakeup_time_hour = 7, !.utc_offset = 0]

\* how the server may be started: the row user_preferences holds, and the
\* UTC time of day.  With the default row (16:00 at UTC+2) at 13:55:55; with
\* the scenario row at 06:55:55 and at 07:00:55.
Boots ==
    { <<DefaultPreferences, convert_to_seconds(0, 13, 55, 55)>>,
      <<ScenarioPreferences, convert_to_seconds(0, 6, 55, 55)>>,
      <<ScenarioPreferences, convert_to_seconds(0, 7, 0, 55)>> }

\* no connection: the state of conn between two connections
NoConnection == [command |-> <<>>, replies |-> <<>>, open |-> FALSE]

RingingLoop == {"ring_check", "play_sound", "playing", "ring_sleep"}

AlarmMode == RingingLoop \cup
             {"countdown", "alarm_on", "alarm_off", "buzzers_off", "deactivate"}

(***************************************************************************)
(* Initial state: the server process starts on a database left by          *)
(* create_database or by an earlier run.                                   *)
(***************************************************************************)
Init ==
    /\ \E b \in Boots, a \in {0, 1}, r \in {0, 1} :
          /\ db = [user_preferences |-> [b[1] EXCEPT !.active_state = a],
                   server_settings  |-> [DefaultServerSettings
                                           EXCEPT !.alarm_state = r]]
          /\ now = b[2]
    /\ pc = "init_active"
    /\ active_read = 0
    /\ loaded = <<0, 0, 0>>
    /\ tick_time = 0
    /\ seconds_left = 0
    /\ window_read = 0
    /\ buzzer1 = FALSE
    /\ buzzer2 = FALSE
    /\ polls = 0
    /\ rings = 0
    /\ aPc = "not_started"
    /\ backlog = <<>>
    /\ conn = NoConnection
    /\ ncmds = 0
    /\ silencedAt = -1
    /\ seen = {}

(***************************************************************************)
(* The scheduler process: initialize, main, alarm_mode, play_sound.        *)
(***************************************************************************)
\* initialize: set_active_state(0)
InitActive ==
    /\ pc = "init_active"
    /\ db' = db_set(db, "active_state", "user_preferences", 0)
    /\ pc' = "init_alarm"
    /\ UNCHANGED <<now, active_read, loaded, tick_time, seconds_left,
                   window_read, buzzer1, buzzer2, polls, rings, silencedAt, seen>>
    /\ UNCHANGED commVars

\* faulty variant of InitAlarm: initialize goes on without
\* set_alarm_state(0)
InitAlarm_skipped ==
    /\ pc = "init_alarm"
    /\ pc' = "init_start"
    /\ UNCHANGED <<db, now, active_read, loaded, tick_time, seconds_left,
                   window_read, buzzer1, buzzer2, polls, rings, silencedAt, seen>>
    /\ UNCHANGED commVars

\* initialize: set_alarm_state(0)
InitAlarm ==
    /\ pc = "init_alarm"
    /\ db' = db_set(db, "alarm_state", "server_settings", 0)
    /\ pc' = "init_start"
    /\ UNCHANGED <<now, active_read, loaded, tick_time, seconds_left,
                   window_read, buzzer1, buzzer2, polls, rings, silencedAt, seen>>
    /\ UNCHANGED commVars

\* initialize: the buzzers are instantiated (off), the socket is bound and
\* the management process is started
InitStart ==
    /\ pc = "init_start"
    /\ buzzer1' = FALSE
    /\ buzzer2' = FALSE
    /\ aPc' = "accept"
    /\ pc' = "sleep"
    /\ UNCHANGED <<db, now, active_read, loaded, tick_time, seconds_left,
                   window_read, polls, rings, silencedAt, seen, backlog,
                   conn, ncmds>>

\* main: time.sleep(MAIN_LOOP_DELAY_SECONDS)
MainLoopDelay ==
    /\ pc = "sleep"
    /\ polls < MaxPolls
    /\ now' = now + MAIN_LOOP_DELAY_SECONDS
    /\ polls' = polls + 1
    /\ pc' = "get_active"
    /\ UNCHANGED <<db, active_read, loaded, tick_time, seconds_left,
                   window_read, buzzer1, buzzer2, rings, silencedAt, seen>>
    /\ UNCHANGED commVars

\* main: if get_active_state()
GetActiveState ==
    /\ pc = "get_active"
    /\ active_read' = db_get(db, "active_state", "user_preferences")
    /\ pc' = IF active_read' # 0 THEN "seconds_until" ELSE "sleep"
    /\ seen' = IF active_read' # 0 THEN {db.user_preferences} ELSE {}
    /\ UNCHANGED <<db, now, loaded, tick_time, seconds_left, window_read,
                   buzzer1, buzzer2, polls, rings, silencedAt>>
    /\ UNCHANGED commVars

\* main: seconds_left = seconds_until_wakeup_time()
SecondsUntilWakeupTime ==
    /\ pc = "seconds_until"
    /\ loaded' = load_settings(db)
    /\ tick_time' = now
    /\ seconds_left' = seconds_until_wakeup_time(loaded', tick_time')
    /\ pc' = "get_window"
    /\ UNCHANGED <<db, now, active_read, window_read, buzzer1, buzzer2,
                   polls, rings, silencedAt, seen>>
    /\ UNCHANGED commVars

\* faulty variant of WithinWakeupWindow: the window taken as seconds
\* instead of minutes
WithinWakeupWindow_seconds(left, wakeup_window) == left <= wakeup_window

\* main: the test `seconds_left <= get_wakeup_window() * 60`
WithinWakeupWindow(left, wakeup_window) == left <= wakeup_window * 60

\* main: if seconds_left <= get_wakeup_window() * 60: alarm_mode(...)
GetWakeupWindow ==
    /\ pc = "get_window"
    /\ window_read' = db_get(db, "wakeup_window", "user_preferences")
    /\ pc' = IF WithinWakeupWindow(seconds_left, window_read')
             THEN "countdown" ELSE "sleep"
    /\ seen' = {}
    /\ UNCHANGED <<db, now, active_read, loaded, tick_time, seconds_left,
                   buzzer1, buzzer2, polls, rings, silencedAt>>
    /\ UNCHANGED commVars

\* faulty variant of CountdownEnd: the remaining time is computed again
\* from the stored preferences when the wait begins
CountdownEnd_reread(t, countdown) ==
    t + seconds_until_wakeup_time(load_settings(db), t)

\* alarm_mode: the time at which time.sleep(countdown), begun at t, returns
CountdownEnd(t, countdown) == t + countdown

\* alarm_mode: time.sleep(countdown); a negative argument raises ValueError
\* and ends the scheduler process
Countdown ==
    /\ pc = "countdown"
    /\ IF seconds_left < 0
       THEN pc' = "crashed" /\ now' = now
       ELSE pc' = "alarm_on" /\ now' = CountdownEnd(now, seconds_left)
    /\ UNCHANGED <<db, active_read, loaded, tick_time, seconds_left,
                   window_read, buzzer1, buzzer2, polls, rings, silencedAt, seen>>
    /\ UNCHANGED commVars

\* faulty variant of AlarmOn: the ringing loop is entered without
\* set_alarm_state(1)
AlarmOn_without_write ==
    /\ pc = "alarm_on"
    /\ silencedAt' = -1
    /\ pc' = "ring_check"
    /\ UNCHANGED <<db, now, active_read, loaded, tick_time, seconds_left,
                   window_read, buzzer1, buzzer2, polls, rings, seen>>
    /\ UNCHANGED commVars

\* alarm_mode: set_alarm_state(1)
AlarmOn ==
    /\ pc = "alarm_on"
    /\ db' = db_set(db, "alarm_state", "server_settings", 1)
    /\ silencedAt' = -1
    /\ seen' = seen
    /\ pc' = "ring_check"
    /\ UNCHANGED <<now, active_read, loaded, tick_time, seconds_left,
                   window_read, buzzer1, buzzer2, polls, rings>>
    /\ UNCHANGED commVars

\* faulty variant of StillRinging: the loop test compares with 0
StillRinging_inverted(alarm_state) == alarm_state = 0

\* alarm_mode: the loop test `get_alarm_state() == 1`
StillRinging(alarm_state) == alarm_state = 1

\* alarm_mode: while get_alarm_state() == 1
RingCheck ==
    /\ pc = "ring_check"
    /\ pc' = IF StillRinging(db_get(db, "alarm_state", "server_settings"))
             THEN "play_sound" ELSE "alarm_off"
    /\ UNCHANGED <<db, now, active_read, loaded, tick_time, seconds_left,
                   window_read, buzzer1, buzzer2, polls, rings, silencedAt, seen>>
    /\ UNCHANGED commVars

\* play_sound: the first half cycle, buzzer1.on(); buzzer2.off()
PlaySoundBegin ==
    /\ pc = "play_sound"
    /\ rings < MaxRings
    /\ rings' = rings + 1
    /\ buzzer1' = TRUE
    /\ buzzer2' = FALSE
    /\ pc' = "playing"
    /\ UNCHANGED <<db, now, active_read, loaded, tick_time, seconds_left,
                   window_read, polls, silencedAt, seen>>
    /\ UNCHANGED commVars

\* play_sound: the remaining half cycles; the last one is
\* buzzer1.off(); buzzer2.on()
PlaySoundEnd ==
    /\ pc = "playing"
    /\ buzzer1' = FALSE
    /\ buzzer2' = TRUE
    /\ now' = now + PlaySoundSeconds
    /\ pc' = "ring_sleep"
    /\ UNCHANGED <<db, active_read, loaded, tick_time, seconds_left,
                   window_read, polls, rings, silencedAt, seen>>
    /\ UNCHANGED commVars

\* alarm_mode: time.sleep(1) at the end of one ring cycle
RingSleep ==
    /\ pc = "ring_sleep"
    /\ now' = now + RING_SLEEP_SECONDS
    /\ pc' = "ring_check"
    /\ UNCHANGED <<db, active_read, loaded, tick_time, seconds_left,
                   window_read, buzzer1, buzzer2, polls, rings, silencedAt, seen>>
    /\ UNCHANGED commVars

\* alarm_mode: set_alarm_state(0) after the loop
AlarmOff ==
    /\ pc = "alarm_off"
    /\ db' = db_set(db, "alarm_state", "server_settings", 0)
    /\ pc' = "buzzers_off"
    /\ UNCHANGED <<now, active_read, loaded, tick_time, seconds_left,
                   window_read, buzzer1, buzzer2, polls, rings, silencedAt, seen>>
    /\ UNCHANGED commVars

\* faulty variant of BuzzersOff: only buzzer1.off() is run
BuzzersOff_first_only ==
    /\ pc = "buzzers_off"
    /\ buzzer1' = FALSE
    /\ pc' = "deactivate"
    /\ UNCHANGED <<db, now, active_read, loaded, tick_time, seconds_left,
                   window_read, buzzer2, polls, rings, silencedAt, seen>>
    /\ UNCHANGED commVars

\* alarm_mode: buzzer1.off(); buzzer2.off()
BuzzersOff ==
    /\ pc = "buzzers_off"
    /\ buzzer1' = FALSE
    /\ buzzer2' = FALSE
    /\ pc' = "deactivate"
    /\ UNCHANGED <<db, now, active_read, loaded, tick_time, seconds_left,
                   window_read, polls, rings, silencedAt, seen>>
    /\ UNCHANGED commVars

\* faulty variant of Deactivate: alarm_mode returns without
\* set_active_state(0)
Deactivate_keeps_active ==
    /\ pc = "deactivate"
    /\ pc' = "sleep"
    /\ UNCHANGED <<db, now, active_read, loaded, tick_time, seconds_left,
                   window_read, buzzer1, buzzer2, polls, rings, silencedAt,
                   seen>>
    /\ UNCHANGED commVars

\* alarm_mode: set_active_state(0), then back to the loop of main
Deactivate ==
    /\ pc = "deactivate"
    /\ db' = db_set(db, "active_state", "user_preferences", 0)
    /\ pc' = "sleep"
    /\ UNCHANGED <<now, active_read, loaded, tick_time, seconds_left,
                   window_read, buzzer1, buzzer2, polls, rings, silencedAt,
                   seen>>
    /\ UNCHANGED commVars

(***************************************************************************)
(* The setters and getters of the database fields.                         *)
(***************************************************************************)
\* faulty variant of set_alarm_state: writing the alarm state also clears
\* the active flag
set_alarm_state_and_active(d, new_alarm_state) ==
    db_set(db_set(d, "alarm_state", "server_settings", new_alarm_state),
           "active_state", "user_preferences", 0)

set_alarm_state(d, new_alarm_state) ==
    db_set(d, "alarm_state", "server_settings", new_alarm_state)

\* faulty variant of set_active_state: the value is written to the alarm
\* state as well
set_active_state_and_alarm(d, new_active_state) ==
    db_set(db_set(d, "active_state", "user_preferences", new_active_state),
           "alarm_state", "server_settings", new_active_state)

set_active_state(d, new_active_state) ==
    db_set(d, "active_state", "user_preferences", new_active_state)

set_wakeup_hour(d, new_wakeup_hour) ==
    db_set(d, "wakeup_time_hour", "user_preferences", new_wakeup_hour)

\* faulty variant of set_wakeup_minute: a partial write, only the last
\* decimal digit is replaced
set_wakeup_minute_partial(d, new_wakeup_minute) ==
    db_set(d, "wakeup_time_minute", "user_preferences",
           (d.user_preferences.wakeup_time_minute \div 10) * 10
             + (new_wakeup_minute % 10))

set_wakeup_minute(d, new_wakeup_minute) ==
    db_set(d, "wakeup_time_minute", "user_preferences", new_wakeup_minute)

set_wakeup_window(d, new_wakeup_window) ==
    db_set(d, "wakeup_window", "user_preferences", new_wakeup_window)

\* faulty variant of set_utc_offset: the update names the wakeup_window
\* column
set_utc_offset_window(d, new_utc_offset) ==
    db_set(d, "wakeup_window", "user_preferences", new_utc_offset)

set_utc_offset(d, new_utc_offset) ==
    db_set(d, "utc_offset", "user_preferences", new_utc_offset)

get_alarm_state(d) == db_get(d, "alarm_state", "server_settings")

(***************************************************************************)
(* The acceptor process: communication.                                    *)
(***************************************************************************)
\* a client connects and sends message m; the connection waits in the
\* listen queue of the socket
Connect(m) ==
    /\ aPc \notin {"not_started", "crashed"}
    /\ ncmds < MaxCmds
    /\ Len(backlog) < LISTEN_BACKLOG
    /\ Len(backlog) < MaxPending
    /\ backlog' = Append(backlog, m)
    /\ ncmds' = ncmds + 1
    /\ UNCHANGED <<db, aPc, conn, silencedAt, seen>>
    /\ UNCHANGED schedVars

\* faulty variant of Accept: connections are accepted by the main loop,
\* between two poll ticks
Accept_between_ticks ==
    /\ aPc = "accept"
    /\ pc = "sleep"
    /\ backlog # <<>>
    /\ conn' = [command |-> Head(backlog), replies |-> <<>>, open |-> TRUE]
    /\ backlog' = Tail(backlog)
    /\ aPc' = "dispatch"
    /\ UNCHANGED <<db, ncmds, silencedAt, seen>>
    /\ UNCHANGED schedVars

\* communication: s.accept(); recv; decode; split
Accept ==
    /\ aPc = "accept"
    /\ backlog # <<>>
    /\ conn' = [command |-> Head(backlog), replies |-> <<>>, open |-> TRUE]
    /\ backlog' = Tail(backlog)
    /\ aPc' = "dispatch"
    /\ UNCHANGED <<db, ncmds, silencedAt, seen>>
    /\ UNCHANGED schedVars

\* the branch of `verb` is taken
Dispatch(verb) == aPc = "dispatch" /\ conn.command[1] = verb

\* command[1] exists and int(command[1]) succeeds
HasIntArg == Len(conn.command) >= 2 /\ ParseInt(conn.command[2]).ok

IntArg == ParseInt(conn.command[2]).val

\* IndexError or ValueError: the acceptor process ends, its sockets close
Raise ==
    /\ aPc' = "crashed"
    /\ conn' = [conn EXCEPT !.open = FALSE]
    /\ db' = db

\* communication: get_alarm_state
CmdGetAlarmState ==
    /\ Dispatch("get_alarm_state")
    /\ conn' = [conn EXCEPT !.replies = Append(@, IntToStr(get_alarm_state(db)))]
    /\ aPc' = "close"
    /\ UNCHANGED <<db, backlog, ncmds, silencedAt, seen>>
    /\ UNCHANGED schedVars

\* communication: set_alarm_state
CmdSetAlarmState ==
    /\ Dispatch("set_alarm_state")
    /\ IF HasIntArg
       THEN /\ db' = set_alarm_state(db, IntArg)
            /\ aPc' = "close"
            /\ conn' = conn
            /\ silencedAt' = IF pc \in RingingLoop /\ IntArg = 0
                             THEN now ELSE silencedAt
       ELSE Raise /\ silencedAt' = silencedAt
    /\ UNCHANGED <<backlog, ncmds, seen>>
    /\ UNCHANGED schedVars

\* history: a write of user_preferences made while the scheduler is
\* between the reads of a poll tick adds the row it leaves to `seen`
SeenAfterWrite ==
    IF pc \in {"seconds_until", "get_window"}
    THEN seen \cup {db'.user_preferences}
    ELSE seen

\* communication: set_active_state
CmdSetActiveState ==
    /\ Dispatch("set_active_state")
    /\ IF HasIntArg
       THEN db' = set_active_state(db, IntArg) /\ aPc' = "close" /\ conn' = conn
       ELSE Raise
    /\ seen' = SeenAfterWrite
    /\ UNCHANGED <<backlog, ncmds, silencedAt>>
    /\ UNCHANGED schedVars

\* communication: set_wakeup_hour
CmdSetWakeupHour ==
    /\ Dispatch("set_wakeup_hour")
    /\ IF HasIntArg
       THEN db' = set_wakeup_hour(db, IntArg) /\ aPc' = "close" /\ conn' = conn
       ELSE Raise
    /\ seen' = SeenAfterWrite
    /\ UNCHANGED <<backlog, ncmds, silencedAt>>
    /\ UNCHANGED schedVars

\* communication: set_wakeup_minute
CmdSetWakeupMinute ==
    /\ Dispatch("set_wakeup_minute")
    /\ IF HasIntArg
       THEN db' = set_wakeup_minute(db, IntArg) /\ aPc' = "close" /\ conn' = conn
       ELSE Raise
    /\ seen' = SeenAfterWrite
    /\ UNCHANGED <<backlog, ncmds, silencedAt>>
    /\ UNCHANGED schedVars

\* communication: set_wakeup_window
CmdSetWakeupWindow ==
    /\ Dispatch("set_wakeup_window")
    /\ IF HasIntArg
       THEN db' = set_wakeup_window(db, IntArg) /\ aPc' = "close" /\ conn' = conn
       ELSE Raise
    /\ seen' = SeenAfterWrite
    /\ UNCHANGED <<backlog, ncmds, silencedAt>>
    /\ UNCHANGED schedVars

\* communication: set_utc_offset
CmdSetUtcOffset ==
    /\ Dispatch("set_utc_offset")
    /\ IF HasIntArg
       THEN db' = set_utc_offset(db, IntArg) /\ aPc' = "close" /\ conn' = conn
       ELSE Raise
    /\ seen' = SeenAfterWrite
    /\ UNCHANGED <<backlog, ncmds, silencedAt>>
    /\ UNCHANGED schedVars

\* communication: get_user_preferences
CmdGetUserPreferences ==
    /\ Dispatch("get_user_preferences")
    /\ conn' = [conn EXCEPT
                  !.replies = Append(@, DictToStr(get_user_preferences(db)))]
    /\ aPc' = "close"
    /\ UNCHANGED <<db, backlog, ncmds, silencedAt, seen>>
    /\ UNCHANGED schedVars

\* faulty variant of CmdUnknown: the if/elif chain ends in an else branch
\* that raises
CmdUnknown_raises ==
    /\ aPc = "dispatch"
    /\ conn.command[1] \notin KnownVerbs
    /\ Raise
    /\ UNCHANGED <<backlog, ncmds, silencedAt, seen>>
    /\ UNCHANGED schedVars

\* communication: no branch of the if/elif chain matches
CmdUnknown ==
    /\ aPc = "dispatch"
    /\ conn.command[1] \notin KnownVerbs
    /\ aPc' = "close"
    /\ UNCHANGED <<db, conn, backlog, ncmds, silencedAt, seen>>
    /\ UNCHANGED schedVars

\* faulty variant of Close: the loop returns to s.accept() without
\* client_socket.close()
Close_keeps_socket ==
    /\ aPc = "close"
    /\ conn' = conn
    /\ aPc' = "accept"
    /\ UNCHANGED <<db, backlog, ncmds, silencedAt, seen>>
    /\ UNCHANGED schedVars

\* communication: client_socket.close(), back to s.accept()
Close ==
    /\ aPc = "close"
    /\ conn' = NoConnection
    /\ aPc' = "accept"
    /\ UNCHANGED <<db, backlog, ncmds, silencedAt, seen>>
    /\ UNCHANGED schedVars

Scheduler ==
    \/ InitActive \/ InitAlarm \/ InitStart
    \/ MainLoopDelay \/ GetActiveState \/ SecondsUntilWakeupTime
    \/ GetWakeupWindow
    \/ Countdown \/ AlarmOn \/ RingCheck \/ PlaySoundBegin \/ PlaySoundEnd
    \/ RingSleep \/ AlarmOff \/ BuzzersOff \/ Deactivate

Acceptor ==
    \/ Accept
    \/ CmdGetAlarmState \/ CmdSetAlarmState \/ CmdSetActiveState
    \/ CmdSetWakeupHour \/ CmdSetWakeupMinute \/ CmdSetWakeupWindow
    \/ CmdSetUtcOffset \/ CmdGetUserPreferences \/ CmdUnknown
    \/ Close

Next ==
    \/ Scheduler
    \/ Acceptor
    \/ \E m \in Messages : Connect(m)

Spec == Init /\ [][Next]_vars

(***************************************************************************)
(* The command protocol alone: the acceptor serving clients while the      *)
(* scheduler is in the first delay of its main loop.  The first connection *)
(* carries any wakeup hour or minute of the valid ranges or next to them;  *)
(* the connections that follow carry one message of every verb.            *)
(***************************************************************************)
HourArgs == -1..24
MinuteArgs == -1..60

FirstMessages ==
    { <<"set_wakeup_hour", IntToStr(h)>> : h \in HourArgs } \cup
    { <<"set_wakeup_minute", IntToStr(m)>> : m \in MinuteArgs }

ProtoMessages ==
    { <<"get_alarm_state">>, <<"get_user_preferences">>,
      <<"set_alarm_state", <<"1">>>>, <<"set_alarm_state", <<"2">>>>,
      <<"set_active_state", <<"1">>>>,
      <<"set_wakeup_hour", <<"6">>>>, <<"set_wakeup_minute", <<"3", "0">>>>,
      <<"set_wakeup_window", <<"-", "1">>>>, <<"set_utc_offset", <<"-", "2">>>>,
      <<"snooze">>, <<"set_wakeup_minute">> }

\* the state initialize leaves (both flags reset, the acceptor started),
\* with the first client connected
InitProto ==
    /\ \E b \in Boots :
          /\ db = [user_preferences |-> b[1],
                   server_settings  |-> DefaultServerSettings]
          /\ now = b[2]
    /\ pc = "sleep"
    /\ active_read = 0
    /\ loaded = <<0, 0, 0>>
    /\ tick_time = 0
    /\ seconds_left = 0
    /\ window_read = 0
    /\ buzzer1 = FALSE
    /\ buzzer2 = FALSE
    /\ polls = 0
    /\ rings = 0
    /\ aPc = "accept"
    /\ \E m \in FirstMessages : backlog = <<m>>
    /\ conn = NoConnection
    /\ ncmds = 1
    /\ silencedAt = -1
    /\ seen = {}

NextProto ==
    \/ Acceptor
    \/ \E m \in ProtoMessages : Connect(m)

SpecProto == InitProto /\ [][NextProto]_vars

(***************************************************************************)
(* seconds_until_wakeup_time alone: one poll tick that has read a true     *)
(* active_state, for every stored wakeup time of the valid ranges.  The    *)
(* local time of day of the tick is midnight, the seconds next to it,      *)
(* noon, and the wakeup time itself with the second before and after it.   *)
(***************************************************************************)
TimeOffsets == {-11, 0, 2}

LocalSamples(hour, minute) ==
    LET wakeup == (hour * 60 + minute) * 60
    IN  { 0, 1, 43200, SECONDS_IN_A_DAY - 1, wakeup,
          (wakeup + SECONDS_IN_A_DAY - 1) % SECONDS_IN_A_DAY,
          (wakeup + 1) % SECONDS_IN_A_DAY }

InitTime ==
    /\ \E hour \in 0..23, minute \in 0..59, offset \in TimeOffsets :
          \E t \in LocalSamples(hour, minute) :
             /\ db = [user_preferences |->
                          [DefaultPreferences EXCEPT
                              !.wakeup_time_hour = hour,
                              !.wakeup_time_minute = minute,
                              !.utc_offset = offset,
                              !.active_state = 1],
                      server_settings |-> DefaultServerSettings]
             /\ now = (t + SECONDS_IN_A_DAY - offset * 3600) % SECONDS_IN_A_DAY
    /\ pc = "seconds_until"
    /\ active_read = 1
    /\ loaded = <<0, 0, 0>>
    /\ tick_time = 0
    /\ seconds_left = 0
    /\ window_read = 0
    /\ buzzer1 = FALSE
    /\ buzzer2 = FALSE
    /\ polls = 1
    /\ rings = 0
    /\ aPc = "accept"
    /\ backlog = <<>>
    /\ conn = NoConnection
    /\ ncmds = 0
    /\ silencedAt = -1
    /\ seen = {db.user_preferences}

NextTime == SecondsUntilWakeupTime

SpecTime == InitTime /\ [][NextTime]_vars

(***************************************************************************)
(* The server with failing devices.  A read of the sqlite store can raise  *)
(* (sqlite3.OperationalError: the file locked by a writer, an I/O error)   *)
(* and so can a buzzer call of gpiozero; neither main, alarm_mode, db_get, *)
(* load_settings nor play_sound has an exception handler, so the exception *)
(* ends the scheduler process.                                             *)
(***************************************************************************)
StoreReads == {"get_active", "seconds_until", "get_window", "ring_check"}

\* db_get or load_settings raises in the scheduler process
StoreReadFails ==
    /\ pc \in StoreReads
    /\ pc' = "crashed"
    /\ UNCHANGED <<db, now, active_read, loaded, tick_time, seconds_left,
                   window_read, buzzer1, buzzer2, polls, rings, silencedAt, seen>>
    /\ UNCHANGED commVars

\* buzzer1.on(), buzzer1.off(), buzzer2.on() or buzzer2.off() raises in
\* play_sound
BuzzerFails ==
    /\ pc \in {"play_sound", "playing"}
    /\ pc' = "crashed"
    /\ UNCHANGED <<db, now, active_read, loaded, tick_time, seconds_left,
                   window_read, buzzer1, buzzer2, polls, rings, silencedAt, seen>>
    /\ UNCHANGED commVars

NextFaults ==
    \/ Next
    \/ StoreReadFails
    \/ BuzzerFails

SpecFaults == Init /\ [][NextFaults]_vars

(***************************************************************************)
(* The poll tick against a client.  initialize has run and the first       *)
(* connection, carrying `set_active_state 1`, is waiting; the client goes  *)
(* on to deactivate the alarm, widen the window, move the wakeup time      *)
(* (hour first, then minute, as the client's menu sends them) or silence   *)
(* the alarm.  The stored preferences and the boot time place a poll tick  *)
(* at the wakeup time, or four minutes before it.                          *)
(***************************************************************************)
TickPreferences(hour, minute, window) ==
    [DefaultPreferences EXCEPT !.wakeup_time_hour = hour,
                               !.wakeup_time_minute = minute,
                               !.utc_offset = 0,
                               !.wakeup_window = window]

\* <<stored preferences, UTC time at which main's loop starts>>
TickRoots ==
    { <<TickPreferences(7, 0, 0),    convert_to_seconds(0, 6, 59, 50)>>,
      <<TickPreferences(7, 0, 0),    convert_to_seconds(0, 6, 55, 55)>>,
      <<TickPreferences(6, 10, 5),   convert_to_seconds(0, 7, 5, 55)>>,
      <<TickPreferences(7, 0, 1440), convert_to_seconds(0, 6, 59, 55)>> }

TickMessages ==
    { <<"set_active_state", <<"1">>>>, <<"set_active_state", <<"0">>>>,
      <<"set_wakeup_window", <<"5">>>>,
      <<"set_wakeup_hour", <<"7">>>>, <<"set_wakeup_minute", <<"3", "0">>>>,
      <<"set_wakeup_hour", <<"-", "2", "5">>>>,
      <<"set_alarm_state", <<"0">>>> }

InitTick ==
    /\ \E r \in TickRoots :
          /\ db = [user_preferences |-> r[1],
                   server_settings  |-> DefaultServerSettings]
          /\ now = r[2]
    /\ pc = "sleep"
    /\ active_read = 0
    /\ loaded = <<0, 0, 0>>
    /\ tick_time = 0
    /\ seconds_left = 0
    /\ window_read = 0
    /\ buzzer1 = FALSE
    /\ buzzer2 = FALSE
    /\ polls = 0
    /\ rings = 0
    /\ aPc = "accept"
    /\ backlog = << <<"set_active_state", <<"1">>>> >>
    /\ conn = NoConnection
    /\ ncmds = 1
    /\ silencedAt = -1
    /\ seen = {}

NextTick ==
    \/ MainLoopDelay \/ GetActiveState \/ SecondsUntilWakeupTime
    \/ GetWakeupWindow \/ Countdown \/ AlarmOn \/ RingCheck
    \/ PlaySoundBegin \/ PlaySoundEnd \/ RingSleep
    \/ AlarmOff \/ BuzzersOff \/ Deactivate
    \/ Accept \/ CmdSetAlarmState \/ CmdSetActiveState \/ CmdSetWakeupHour
    \/ CmdSetWakeupMinute \/ CmdSetWakeupWindow \/ Close
    \/ \E m \in TickMessages : Connect(m)

SpecTick == InitTick /\ [][NextTick]_vars

(***************************************************************************)
(* The server under fair scheduling, for progress.  The window of 1440     *)
(* minutes makes every poll tick fall inside the wakeup window, so an      *)
(* activation is due at the first tick that reads it.  Clients only        *)
(* activate the alarm and silence it: no command changes a preference or   *)
(* clears the active flag.  Both processes keep running: each takes its    *)
(* next step whenever it has one.                                          *)
(***************************************************************************)
LiveMessages ==
    { <<"set_active_state", <<"1">>>>, <<"set_alarm_state", <<"0">>>> }

InitLive ==
    /\ db = [user_preferences |-> TickPreferences(7, 0, 1440),
             server_settings  |-> DefaultServerSettings]
    /\ now \in { convert_to_seconds(0, 6, 59, 55),
                 convert_to_seconds(0, 13, 55, 55) }
    /\ pc = "sleep"
    /\ active_read = 0
    /\ loaded = <<0, 0, 0>>
    /\ tick_time = 0
    /\ seconds_left = 0
    /\ window_read = 0
    /\ buzzer1 = FALSE
    /\ buzzer2 = FALSE
    /\ polls = 0
    /\ rings = 0
    /\ aPc = "accept"
    /\ backlog = << <<"set_active_state", <<"1">>>> >>
    /\ conn = NoConnection
    /\ ncmds = 1
    /\ silencedAt = -1
    /\ seen = {}

LiveScheduler ==
    \/ MainLoopDelay \/ GetActiveState \/ SecondsUntilWakeupTime
    \/ GetWakeupWindow \/ Countdown \/ AlarmOn \/ RingCheck
    \/ PlaySoundBegin \/ PlaySoundEnd \/ RingSleep
    \/ AlarmOff \/ BuzzersOff \/ Deactivate

LiveAcceptor ==
    \/ Accept \/ CmdSetAlarmState \/ CmdSetActiveState \/ Close

NextLive ==
    \/ LiveScheduler
    \/ LiveAcceptor
    \/ \E m \in LiveMessages : Connect(m)

SpecLive ==
    /\ InitLive
    /\ [][NextLive]_vars
    /\ WF_vars(LiveScheduler)
    /\ WF_vars(LiveAcceptor)

(***************************************************************************)
(* Shorthands used by the properties.                                      *)
(***************************************************************************)
Prefs == db.user_preferences

AlarmState == db.server_settings.alarm_state

\* a step of the scheduler process
SchedulerStep == pc' # pc

\* the acceptor has just handled the command `verb` of the open connection
Handled(verb) == Dispatch(verb) /\ aPc' = "close"

\* the local time of day, in seconds, at UTC time t under offset o
LocalSecondOfDay(o, t) == (t + o * 3600) % SECONDS_IN_A_DAY

\* the value text paired with `key` in a get_user_preferences reply
ReplyValues(reply, key) ==
    { reply[i][2] : i \in { j \in 1..Len(reply) : reply[j][1] = key } }

LastReply(c) == c.replies[Len(c.replies)]

(***************************************************************************)
(* C1.  Whenever the scheduler is in the ringing loop and a                *)
(* `set_alarm_state 0` command is processed, then within one ring cycle    *)
(* the scheduler leaves the ringing loop, and when it is back in its idle  *)
(* polling loop both buzzers are off, active_state is 0 and alarm_state    *)
(* is 0.                                                                   *)
(***************************************************************************)
C1_SilenceEndsRingingWithinOneCycle ==
    [][ /\ (pc' \in RingingLoop /\ silencedAt' # -1)
              => now' - silencedAt' <= RingCycleSeconds
        /\ (pc = "deactivate" /\ pc' = "sleep" /\ silencedAt # -1)
              => /\ ~buzzer1' /\ ~buzzer2'
                 /\ db'.user_preferences.active_state = 0
                 /\ db'.server_settings.alarm_state = 0 ]_vars

(***************************************************************************)
(* C2.  When a poll tick finds active_state true and seconds_left <=       *)
(* wakeup_window*60, the scheduler enters the countdown, waits exactly     *)
(* seconds_left seconds and then sets alarm_state to 1, at the wakeup      *)
(* time of day that the tick read.                                         *)
(***************************************************************************)
C2_CountdownThenRingAtWakeupTime ==
    [][ /\ (pc = "get_window" /\ SchedulerStep /\ active_read # 0
              /\ seconds_left <= Prefs.wakeup_window * 60)
              => pc' = "countdown"
        /\ (pc = "countdown" /\ SchedulerStep)
              => pc' = "alarm_on" /\ now' = tick_time + seconds_left
        /\ (pc = "alarm_on" /\ SchedulerStep)
              => /\ db'.server_settings.alarm_state = 1
                 /\ LocalSecondOfDay(loaded[3], now')
                      = convert_to_seconds(0, loaded[1], loaded[2], 0)
                          % SECONDS_IN_A_DAY ]_vars

(***************************************************************************)
(* C3.  A poll tick starts alarm mode if and only if the active_state it   *)
(* read is true and seconds_left <= wakeup_window*60 at that tick; a tick  *)
(* whose seconds_left has wrapped to the next day and a tick with          *)
(* active_state false start no countdown, and the scheduler sets           *)
(* alarm_state to 1 only at the end of a countdown.                        *)
(***************************************************************************)
C3_AlarmModeIffActiveAndWithinWindow ==
    [][ /\ (pc = "get_active" /\ SchedulerStep)
              => (pc' = "seconds_until" <=> Prefs.active_state # 0)
        /\ (pc' = "seconds_until" /\ SchedulerStep) => pc = "get_active"
        /\ (pc' = "get_window" /\ SchedulerStep) => pc = "seconds_until"
        /\ (pc' = "countdown" /\ SchedulerStep)
              <=> (/\ pc = "get_window" /\ SchedulerStep
                   /\ active_read # 0
                   /\ seconds_left <= Prefs.wakeup_window * 60)
        /\ (pc' = "alarm_on" /\ SchedulerStep) => pc = "countdown"
        /\ (SchedulerStep /\ db'.server_settings.alarm_state = 1
              /\ AlarmState # 1) => pc = "alarm_on" ]_vars

\* the tick at 07:01:00 for a 07:00 wakeup with window 5 has ended without
\* starting a countdown
C3_Witness ==
    /\ pc = "sleep" /\ polls >= 1 /\ active_read # 0
    /\ tick_time % SECONDS_IN_A_DAY = convert_to_seconds(0, 7, 1, 0)
    /\ loaded = <<7, 0, 0>> /\ window_read = 5
    /\ seconds_left = 86340

(***************************************************************************)
(* C4.  Once the scheduler has begun a countdown of c seconds, no command  *)
(* processed during the countdown cancels, shortens or lengthens it: the   *)
(* scheduler sets alarm_state to 1 exactly c seconds after the tick that   *)
(* computed c.                                                             *)
(***************************************************************************)
C4_CountdownImmuneToCommands ==
    [][ /\ (pc \in {"countdown", "alarm_on"} /\ ~SchedulerStep)
              => UNCHANGED <<pc, seconds_left, tick_time, now>>
        /\ (pc = "countdown" /\ SchedulerStep)
              => \/ pc' = "alarm_on" /\ now' = tick_time + seconds_left
                 \/ pc' = "crashed" /\ seconds_left < 0
        /\ (pc = "alarm_on" /\ SchedulerStep)
              => /\ db'.server_settings.alarm_state = 1
                 /\ now' = tick_time + seconds_left ]_vars

\* the stored preferences were edited after the tick read them, and the
\* scheduler has set alarm_state to 1 at the end of the original countdown
C4_Witness ==
    /\ pc = "ring_check" /\ rings = 0 /\ AlarmState = 1
    /\ seconds_left > 0
    /\ now = tick_time + seconds_left
    /\ load_settings(db) # loaded
    /\ Prefs.wakeup_window # window_read

(***************************************************************************)
(* C5.  For every hour in 0..23 and minute in 0..59: after a               *)
(* `set_wakeup_hour h` (`set_wakeup_minute m`) command has been processed  *)
(* the stored hour (minute) is h (m), no other command changes it, and a   *)
(* `get_user_preferences` reply reports the stored hour and minute, so the *)
(* next reply reports h (m).                                               *)
(***************************************************************************)
C5_SetThenGetRoundTrip ==
    [][ /\ \A h \in 0..23 :
              (Handled("set_wakeup_hour") /\ conn.command = <<"set_wakeup_hour", IntToStr(h)>>)
                 => db'.user_preferences.wakeup_time_hour = h
        /\ \A m \in 0..59 :
              (Handled("set_wakeup_minute") /\ conn.command = <<"set_wakeup_minute", IntToStr(m)>>)
                 => db'.user_preferences.wakeup_time_minute = m
        /\ ~Dispatch("set_wakeup_hour")
              => db'.user_preferences.wakeup_time_hour = Prefs.wakeup_time_hour
        /\ ~Dispatch("set_wakeup_minute")
              => db'.user_preferences.wakeup_time_minute = Prefs.wakeup_time_minute
        /\ Handled("get_user_preferences")
              => /\ Len(conn'.replies) = 1
                 /\ { ParseInt(v) : v \in ReplyValues(LastReply(conn'), "wakeup_time_hour") }
                      = { [ok |-> TRUE, val |-> Prefs.wakeup_time_hour] }
                 /\ { ParseInt(v) : v \in ReplyValues(LastReply(conn'), "wakeup_time_minute") }
                      = { [ok |-> TRUE, val |-> Prefs.wakeup_time_minute] } ]_vars

\* `set_wakeup_minute 59` was the first command and `get_user_preferences`
\* the second: its reply reports minute 59
C5_Witness ==
    /\ aPc = "close" /\ ncmds = 2 /\ backlog = <<>>
    /\ conn.command = <<"get_user_preferences">>
    /\ Prefs.wakeup_time_minute = 59
    /\ ReplyValues(LastReply(conn), "wakeup_time_minute") = { <<"5", "9">> }

(***************************************************************************)
(* C6.  A `set_wakeup_hour` command with an argument outside 0..23 and a   *)
(* `set_wakeup_minute` command with an argument outside 0..59 leave the    *)
(* stored preferences unchanged, so the stored hour is always in 0..23 and *)
(* the stored minute always in 0..59.                                      *)
(***************************************************************************)
C6_StoredTimeOfDayValid ==
    /\ Prefs.wakeup_time_hour \in 0..23
    /\ Prefs.wakeup_time_minute \in 0..59

(***************************************************************************)
(* C7.  The stored wakeup_window is >= 0 in every reachable state: a       *)
(* `set_wakeup_window` command with a negative argument is rejected.       *)
(***************************************************************************)
C7_StoredWindowNonNegative == Prefs.wakeup_window >= 0

(***************************************************************************)
(* C8.  With two connections open at once, each carrying a                 *)
(* `set_wakeup_minute` command, the stored minute only ever changes to     *)
(* the argument of the command being processed: it is never a value other  *)
(* than the previous one, a or b, and after both it is a or b.             *)
(***************************************************************************)
C8_MinuteOnlyTakesValuesSent ==
    [][ db'.user_preferences.wakeup_time_minute # Prefs.wakeup_time_minute
          => /\ Handled("set_wakeup_minute")
             /\ conn.open
             /\ conn.command
                  = <<"set_wakeup_minute",
                      IntToStr(db'.user_preferences.wakeup_time_minute)>> ]_vars

\* one connection's `set_wakeup_minute a` has been processed while another
\* connection with `set_wakeup_minute b`, b # a, is waiting
C8_Witness ==
    /\ aPc = "close" /\ conn.open
    /\ conn.command[1] = "set_wakeup_minute"
    /\ backlog # <<>>
    /\ Head(backlog)[1] = "set_wakeup_minute" /\ Len(Head(backlog)) = 2
    /\ Head(backlog)[2] # conn.command[2]
    /\ conn.command[2] = IntToStr(Prefs.wakeup_time_minute)

(***************************************************************************)
(* C9.  The (wakeup_hour, wakeup_minute, utc_offset) triple used in one    *)
(* computation of seconds_left is the triple stored at the instant of the  *)
(* read, whatever commands are processed around it: no torn read.          *)
(***************************************************************************)
C9_NoTornRead ==
    [][ /\ (pc = "seconds_until" /\ SchedulerStep)
              => /\ loaded' = <<Prefs.wakeup_time_hour, Prefs.wakeup_time_minute,
                                Prefs.utc_offset>>
                 /\ seconds_left'
                      = seconds_until_wakeup_time(
                           <<Prefs.wakeup_time_hour, Prefs.wakeup_time_minute,
                             Prefs.utc_offset>>, now)
        /\ ~(pc = "seconds_until" /\ SchedulerStep)
              => UNCHANGED <<loaded, seconds_left>> ]_vars

\* a command changed the stored triple right after the scheduler read it:
\* the computation keeps the triple it read
C9_Witness ==
    /\ pc = "get_window"
    /\ loaded = <<7, 0, 0>>
    /\ seconds_left = 240
    /\ load_settings(db) # loaded

(***************************************************************************)
(* C10.  A `get_alarm_state` command processed while the scheduler is not  *)
(* in the ringing loop is answered "0", and one processed while it is in   *)
(* the ringing loop is answered "1".                                       *)
(***************************************************************************)
C10_ReplyTellsWhetherRinging ==
    [][ Handled("get_alarm_state")
          => /\ Len(conn'.replies) = 1
             /\ LastReply(conn') = IF pc \in RingingLoop THEN <<"1">> ELSE <<"0">> ]_vars

(***************************************************************************)
(* C11.  The stored alarm_state is 0 or 1 whatever integers the            *)
(* `set_alarm_state` commands carried, and the body of every reply to      *)
(* `get_alarm_state` is "0" or "1".                                        *)
(***************************************************************************)
C11_AlarmStateIsZeroOrOne ==
    /\ AlarmState \in {0, 1}
    /\ (aPc = "close" /\ conn.command = <<"get_alarm_state">>)
          => LastReply(conn) \in { <<"0">>, <<"1">> }

(***************************************************************************)
(* C12.  Once initialize has reset the flags, alarm_state is 1 only while  *)
(* the scheduler is inside the ringing loop of alarm_mode.                 *)
(***************************************************************************)
C12_AlarmStateOnlyWhileRinging ==
    (pc \notin {"init_active", "init_alarm"} /\ AlarmState = 1)
        => pc \in RingingLoop

(***************************************************************************)
(* C13.  Silencing is idempotent: a `set_alarm_state 0` command raises no  *)
(* error and sends no reply, leaves alarm_state = 0 and changes no other   *)
(* stored field and nothing of the scheduler; processed while alarm_state  *)
(* is already 0 (the server idle, or a second silence in a row) it changes *)
(* nothing at all.                                                         *)
(***************************************************************************)
C13_SilenceIdempotent ==
    [][ ( /\ Dispatch("set_alarm_state")
          /\ conn.command = <<"set_alarm_state", <<"0">>>>
          /\ aPc' # aPc )
          => /\ aPc' = "close"
             /\ conn' = conn
             /\ AlarmState' = 0
             /\ db' = [db EXCEPT !.server_settings.alarm_state = 0]
             /\ (AlarmState = 0 => db' = db)
             /\ UNCHANGED schedVars ]_vars

\* the server idle with alarm_state 0: one silence has been processed and
\* the next one is waiting in the listen queue
C13_Witness ==
    /\ pc = "sleep"
    /\ aPc = "close"
    /\ conn.command = <<"set_alarm_state", <<"0">>>>
    /\ conn.replies = <<>>
    /\ backlog = << <<"set_alarm_state", <<"0">>>> >>
    /\ AlarmState = 0
    /\ Prefs.active_state = 1

(***************************************************************************)
(* C14.  At the step by which alarm_mode returns to the polling loop,      *)
(* active_state is 0 and alarm_state is 0.                                 *)
(***************************************************************************)
C14_ReturnClearsBothFlags ==
    [][ (pc = "deactivate" /\ pc' = "sleep")
          => (Prefs'.active_state = 0 /\ AlarmState' = 0) ]_vars

(***************************************************************************)
(* C15.  For a stored hour in 0..23 and minute in 0..59,                   *)
(* seconds_until_wakeup_time returns ((hour*60+minute)*60 - t) mod 86400,  *)
(* t being the local second of the day at which it is called.              *)
(***************************************************************************)
C15_SecondsUntilIsDifferenceModDay ==
    (pc = "get_window" /\ loaded[1] \in 0..23 /\ loaded[2] \in 0..59)
        => seconds_left =
              ((loaded[1] * 60 + loaded[2]) * 60
                  - LocalSecondOfDay(loaded[3], tick_time)) % 86400

\* wakeup 23:59 computed at local 23:59:01 under offset 2: the difference
\* is negative and wraps to the next day
C15_Witness ==
    /\ pc = "get_window"
    /\ loaded = <<23, 59, 2>>
    /\ LocalSecondOfDay(loaded[3], tick_time) = 86341
    /\ seconds_left = 86399

(***************************************************************************)
(* C16.  The seconds_left value computed at a poll tick, which is the      *)
(* countdown handed to alarm_mode, is at least 0 and less than 86400.      *)
(***************************************************************************)
C16_SecondsLeftWithinADay ==
    seconds_left \in 0..(SECONDS_IN_A_DAY - 1)

(***************************************************************************)
(* C17.  A `set_*` command with no argument, or with an argument that is   *)
(* not an integer, is answered by closing the connection: no reply is      *)
(* sent, no stored field changes and the acceptor goes on to its next      *)
(* connection.                                                             *)
(***************************************************************************)
C17_MalformedSetIsIgnored ==
    [][ ( /\ aPc = "dispatch"
          /\ conn.command[1] \in SetVerbs
          /\ ~HasIntArg
          /\ aPc' # aPc )
          => /\ aPc' = "close"
             /\ conn' = conn
             /\ db' = db ]_vars

(***************************************************************************)
(* C18.  A command whose first token is not a known verb gets no reply and *)
(* changes no stored field; its connection is closed and the acceptor      *)
(* returns to accepting connections.                                       *)
(***************************************************************************)
C18_UnknownVerbIsIgnored ==
    [][ /\ ( /\ aPc = "dispatch"
             /\ conn.command[1] \notin KnownVerbs
             /\ aPc' # aPc )
             => /\ aPc' = "close"
                /\ conn' = conn
                /\ db' = db
                /\ UNCHANGED schedVars
        /\ ( /\ aPc = "close"
             /\ conn.command[1] \notin KnownVerbs
             /\ aPc' # aPc )
             => /\ aPc' = "accept"
                /\ ~conn'.open
                /\ db' = db ]_vars

\* `snooze` has been handled with no reply and the next connection is
\* waiting to be accepted
C18_Witness ==
    /\ aPc = "close"
    /\ conn.command = <<"snooze">>
    /\ conn.replies = <<>>
    /\ backlog = << <<"get_alarm_state">> >>
    /\ db.server_settings = DefaultServerSettings

(***************************************************************************)
(* C19.  A failing read of the store during a poll tick (active_state,     *)
(* the wakeup time, the wakeup window) does not end the scheduler: the     *)
(* tick is abandoned and the loop goes on.                                 *)
(***************************************************************************)
C19_StoreFailureAbortsOnlyTheTick ==
    [][ (pc \in {"get_active", "seconds_until", "get_window"} /\ SchedulerStep)
          => pc' \in {"sleep", "seconds_until", "get_window", "countdown"} ]_vars

(***************************************************************************)
(* C20.  No step of play_sound takes the scheduler out of the ringing      *)
(* loop, a failing buzzer call included: the loop is left only by its      *)
(* test reading an alarm_state other than 1.                               *)
(***************************************************************************)
C20_BuzzerFailureKeepsRinging ==
    [][ (pc \in {"play_sound", "playing"} /\ SchedulerStep)
          => pc' \in RingingLoop ]_vars

(***************************************************************************)
(* C21.  A connection carries one command.  When the server has handled    *)
(* it, exactly one reply has been sent if the command is `get_alarm_state` *)
(* or `get_user_preferences` and none otherwise; the connection is closed  *)
(* whenever the server waits to accept the next one.                       *)
(***************************************************************************)
C21_OneCommandOneReplyThenClose ==
    /\ Len(conn.replies) <= 1
    /\ aPc = "dispatch" => (conn.open /\ conn.replies = <<>>)
    /\ aPc = "close" =>
          Len(conn.replies) =
             IF conn.command[1] \in {"get_alarm_state", "get_user_preferences"}
             THEN 1 ELSE 0
    /\ aPc \in {"accept", "crashed"} => (~conn.open /\ conn.replies = <<>>)

\* the third connection: `get_alarm_state` answered once, the connection
\* not yet closed
C21_Witness ==
    /\ aPc = "close"
    /\ ncmds = 3
    /\ conn.open
    /\ conn.command = <<"get_alarm_state">>
    /\ Len(conn.replies) = 1

(***************************************************************************)
(* C22.  The reply to `get_user_preferences` pairs wakeup_time_hour,       *)
(* wakeup_time_minute, utc_offset, wakeup_window and active_state, in this *)
(* order (the column order of the table), each with the value stored when  *)
(* the command is handled; it has no other entry, so no id.                *)
(***************************************************************************)
C22_ReplyIsTheFivePreferences ==
    [][ Handled("get_user_preferences")
          => conn'.replies =
               << << <<"wakeup_time_hour",   IntToStr(Prefs.wakeup_time_hour)>>,
                     <<"wakeup_time_minute", IntToStr(Prefs.wakeup_time_minute)>>,
                     <<"utc_offset",         IntToStr(Prefs.utc_offset)>>,
                     <<"wakeup_window",      IntToStr(Prefs.wakeup_window)>>,
                     <<"active_state",       IntToStr(Prefs.active_state)>> >> >> ]_vars

\* the reply sent after `set_wakeup_hour 23` and `set_utc_offset -2`
C22_Witness ==
    /\ aPc = "close"
    /\ conn.command = <<"get_user_preferences">>
    /\ Len(conn.replies) = 1
    /\ Len(LastReply(conn)) = 5
    /\ LastReply(conn)[1] = <<"wakeup_time_hour", <<"2", "3">>>>
    /\ LastReply(conn)[3] = <<"utc_offset", <<"-", "2">>>>
    /\ LastReply(conn)[5][1] = "active_state"

(***************************************************************************)
(* C23.  Handling a `set_*` command changes the one stored field the verb  *)
(* names, to the argument sent, and no other field of user_preferences or  *)
(* server_settings; handling a `get_*` command changes no stored field.    *)
(***************************************************************************)
C23_SetChangesExactlyItsField ==
    [][ /\ Handled("set_alarm_state")
           => db' = [db EXCEPT !.server_settings.alarm_state = IntArg]
        /\ Handled("set_active_state")
           => db' = [db EXCEPT !.user_preferences.active_state = IntArg]
        /\ Handled("set_wakeup_hour")
           => db' = [db EXCEPT !.user_preferences.wakeup_time_hour = IntArg]
        /\ Handled("set_wakeup_minute")
           => db' = [db EXCEPT !.user_preferences.wakeup_time_minute = IntArg]
        /\ Handled("set_wakeup_window")
           => db' = [db EXCEPT !.user_preferences.wakeup_window = IntArg]
        /\ Handled("set_utc_offset")
           => db' = [db EXCEPT !.user_preferences.utc_offset = IntArg]
        /\ (Handled("get_alarm_state") \/ Handled("get_user_preferences"))
           => db' = db ]_vars

\* `set_utc_offset -2` handled after `set_wakeup_hour 23` and
\* `set_alarm_state 2`: the three fields hold the values sent, the others
\* the values the server started with
C23_Witness ==
    /\ aPc = "close"
    /\ conn.command = <<"set_utc_offset", <<"-", "2">>>>
    /\ Prefs = [DefaultPreferences EXCEPT !.wakeup_time_hour = 23,
                                          !.utc_offset = -2]
    /\ AlarmState = 2

(***************************************************************************)
(* C24.  The acceptor never waits for the scheduler: wherever the          *)
(* scheduler is (its poll delay, a countdown, the ringing loop), a         *)
(* connection waiting in the listen queue can be accepted, an accepted     *)
(* command can be handled and a handled connection can be closed, each     *)
(* without a step of the scheduler.                                        *)
(***************************************************************************)
C24_AcceptorNeverWaitsForScheduler ==
    /\ (aPc = "accept" /\ backlog # <<>>) => ENABLED (Accept /\ UNCHANGED schedVars)
    /\ aPc = "dispatch" => ENABLED (Acceptor /\ UNCHANGED schedVars)
    /\ aPc = "close" => ENABLED (Close /\ UNCHANGED schedVars)

\* `get_alarm_state` answered "1" while the scheduler is in the sleep of
\* the ringing loop, the next connection already waiting
C24_Witness ==
    /\ pc = "ring_sleep"
    /\ aPc = "close"
    /\ conn.command = <<"get_alarm_state">>
    /\ conn.replies = << <<"1">> >>
    /\ backlog # <<>>

(***************************************************************************)
(* C25.  With a wakeup_window of 0, a poll tick that has read a true       *)
(* active_state starts alarm mode only if its seconds_left is 0, and a     *)
(* tick with seconds_left > 0 returns to the poll delay.                   *)
(***************************************************************************)
C25_ZeroWindowFiresOnlyAtZero ==
    [][ (pc = "get_window" /\ SchedulerStep /\ window_read' = 0)
          => /\ pc' = "countdown" => seconds_left = 0
             /\ seconds_left > 0 => pc' = "sleep" ]_vars

(***************************************************************************)
(* C26.  The scheduler leaves the ringing loop only by the loop test, made *)
(* once per ring cycle, reading an alarm_state other than 1: while         *)
(* alarm_state stays 1 it goes round the loop.                             *)
(***************************************************************************)
C26_RingingEndsOnlyWhenSilenced ==
    [][ /\ (pc \in RingingLoop /\ pc' \notin RingingLoop)
           => (pc = "ring_check" /\ AlarmState # 1 /\ pc' = "alarm_off")
        /\ (pc = "ring_check" /\ SchedulerStep /\ AlarmState = 1)
           => pc' = "play_sound"
        /\ (pc = "ring_sleep" /\ SchedulerStep) => pc' = "ring_check" ]_vars

\* the loop has been left after one full ring cycle, a silence having been
\* processed during it
C26_Witness ==
    /\ pc = "alarm_off"
    /\ rings = 1
    /\ silencedAt # -1
    /\ AlarmState = 0

(***************************************************************************)
(* C27.  A poll tick that starts alarm mode has decided on an active_state,*)
(* a wakeup hour, minute and utc_offset, and a wakeup_window that were     *)
(* stored together at one instant of the tick: some row that               *)
(* user_preferences held between the tick's first read and its last holds *)
(* all five values read.                                                   *)
(***************************************************************************)
C27_TickDecidesOnOneSnapshot ==
    [][ (pc = "get_window" /\ pc' = "countdown")
          => \E row \in seen :
                /\ row.active_state = active_read
                /\ <<row.wakeup_time_hour, row.wakeup_time_minute,
                     row.utc_offset>> = loaded
                /\ row.wakeup_window = window_read' ]_vars

(***************************************************************************)
(* C28.  A client that moves the wakeup time from 06:10 to 07:30 sends     *)
(* `set_wakeup_hour 7` and then `set_wakeup_minute 30`; the pair 07:10     *)
(* stored between the two commands is never the wakeup time of a tick      *)
(* that starts alarm mode.                                                 *)
(***************************************************************************)
C28_NoCountdownTowardIntermediateTime ==
    [][ (pc = "get_window" /\ pc' = "countdown")
          => <<loaded[1], loaded[2]>> # <<7, 10>> ]_vars

(***************************************************************************)
(* C30.  One activation rings once.  alarm_mode returns with active_state  *)
(* 0; a stored active_state of 0 becomes non-zero only by a                *)
(* `set_active_state` command carrying a non-zero argument; and the        *)
(* scheduler enters alarm mode only from a poll tick that has read a       *)
(* non-zero active_state, a tick reading 0 going back to the poll delay.   *)
(* So after a return no alarm mode starts before such a command has been   *)
(* processed, however wide the wakeup window.                              *)
(***************************************************************************)
C30_OneRingPerActivation ==
    [][ /\ (pc = "deactivate" /\ pc' = "sleep") => Prefs'.active_state = 0
        /\ (Prefs.active_state = 0 /\ Prefs'.active_state # 0)
           => (Handled("set_active_state") /\ IntArg # 0)
        /\ (pc = "get_active" /\ SchedulerStep /\ Prefs.active_state = 0)
           => pc' = "sleep"
        /\ (pc # "countdown" /\ pc' = "countdown")
           => (pc = "get_window" /\ active_read # 0) ]_vars

\* window of 1440 minutes: the alarm has rung and been silenced, a second
\* `set_active_state 1` has been processed, and the second poll tick has
\* started alarm mode again
C30_Witness ==
    /\ pc = "countdown"
    /\ polls = 2
    /\ window_read = 1440
    /\ silencedAt # -1
    /\ Prefs.active_state = 1

(***************************************************************************)
(* C29.  Progress: with a valid wakeup time and a window no shorter than   *)
(* the poll delay, once a `set_active_state 1` command has been processed  *)
(* and no later command changes the preferences or the active flag, the    *)
(* scheduler (which still has a poll tick ahead of it) reaches the ringing *)
(* loop.                                                                   *)
(***************************************************************************)
C29_ActivationLeadsToRinging ==
    ( /\ aPc = "close"
      /\ conn.command = <<"set_active_state", <<"1">>>>
      /\ Prefs.active_state = 1
      /\ polls < MaxPolls )
    ~> (pc \in RingingLoop)

(***************************************************************************)
(* C31.  A `set_alarm_state 0` processed before the ringing starts does    *)
(* not suppress the ring: at the end of the countdown alarm_mode writes    *)
(* alarm_state = 1 whatever is stored and enters the ringing loop, and     *)
(* inside the loop alarm_state stops being 1 only by a `set_alarm_state`   *)
(* command processed after that write.                                     *)
(***************************************************************************)
C31_EarlySilenceDoesNotSuppressRing ==
    [][ /\ (pc = "alarm_on" /\ SchedulerStep)
           => (AlarmState' = 1 /\ pc' = "ring_check")
        /\ (pc \in RingingLoop /\ AlarmState = 1 /\ AlarmState' # 1)
           => (Handled("set_alarm_state") /\ IntArg # 1)
        /\ (pc \in RingingLoop /\ pc' \notin RingingLoop) => AlarmState # 1 ]_vars

\* a silence was processed during the countdown (its connection is still
\* to be closed); the write of 1 followed and the first play_sound is due
C31_Witness ==
    /\ pc = "play_sound"
    /\ rings = 0
    /\ aPc = "close"
    /\ conn.command = <<"set_alarm_state", <<"0">>>>
    /\ silencedAt = -1
    /\ AlarmState = 1

(***************************************************************************)
(* C32.  A `set_active_state 0` command processed while the scheduler is   *)
(* in the ringing loop does not stop the ringing: it leaves alarm_state,   *)
(* the buzzers and the scheduler's position as they are, and the loop test *)
(* starts the next ring cycle exactly when it reads alarm_state = 1,       *)
(* whatever the active flag is.                                            *)
(***************************************************************************)
C32_DeactivationDoesNotStopRinging ==
    [][ /\ ( /\ Handled("set_active_state")
             /\ conn.command = <<"set_active_state", <<"0">>>>
             /\ pc \in RingingLoop )
           => /\ AlarmState' = AlarmState
              /\ Prefs'.active_state = 0
              /\ UNCHANGED schedVars
        /\ (pc = "ring_check" /\ SchedulerStep)
           => (pc' = "play_sound" <=> AlarmState = 1) ]_vars

\* the alarm was deactivated during the first ring cycle and the loop test
\* has started the second one
C32_Witness ==
    /\ pc = "play_sound"
    /\ rings = 1
    /\ aPc = "close"
    /\ conn.command = <<"set_active_state", <<"0">>>>
    /\ Prefs.active_state = 0
    /\ AlarmState = 1

(***************************************************************************)
(* C33.  Both buzzers are off whenever the scheduler is in the poll delay, *)
(* in a poll tick or in a countdown; a buzzer is switched on only by a     *)
(* step of play_sound, and alarm_mode has switched both off when it        *)
(* reaches its last statement and returns.                                 *)
(***************************************************************************)
OutsideRinging ==
    {"sleep", "get_active", "seconds_until", "get_window", "countdown",
     "alarm_on"}

C33_BuzzersOffOutsideRinging ==
    /\ pc \in OutsideRinging => (~buzzer1 /\ ~buzzer2)
    /\ [][ /\ pc' \in OutsideRinging \cup {"deactivate"}
              => (~buzzer1' /\ ~buzzer2')
           /\ ((~buzzer1 /\ buzzer1') \/ (~buzzer2 /\ buzzer2'))
              => (pc \in {"play_sound", "playing"} /\ SchedulerStep) ]_vars

\* back in the poll delay after an alarm that has rung at least once
C33_Witness ==
    /\ pc = "sleep"
    /\ rings >= 1
    /\ polls >= 1
    /\ ~buzzer1
    /\ ~buzzer2

(***************************************************************************)
(* C34.  Server start-up resets the alarm: whatever active_state and       *)
(* alarm_state were stored before, initialize stores 0 in both, and both   *)
(* are 0 when it starts the command acceptor.  The acceptor is not running *)
(* during the reset and has processed no command when it is started, and   *)
(* initialize never runs again once the acceptor is running, so the reset  *)
(* overwrites nothing a command has stored.                                *)
(***************************************************************************)
Initializing == {"init_active", "init_alarm", "init_start"}

C34_StartupResetBeforeAcceptor ==
    /\ pc \in Initializing => (aPc = "not_started" /\ ncmds = 0)
    /\ [][ /\ (pc = "init_active" /\ SchedulerStep)
              => (Prefs'.active_state = 0 /\ aPc' = "not_started")
           /\ (pc = "init_alarm" /\ SchedulerStep)
              => (AlarmState' = 0 /\ Prefs'.active_state = 0
                  /\ aPc' = "not_started")
           /\ (pc = "init_start" /\ SchedulerStep)
              => /\ Prefs'.active_state = 0
                 /\ AlarmState' = 0
                 /\ aPc = "not_started"
                 /\ aPc' = "accept"
                 /\ ncmds' = 0
                 /\ pc' = "sleep"
           /\ aPc' # "not_started" => pc' \notin Initializing ]_vars

\* a command processed right after start-up, before the first poll: the
\* value it stored is in the store
C34_Witness ==
    /\ pc = "sleep"
    /\ polls = 0
    /\ aPc = "close"
    /\ conn.command = <<"set_active_state", <<"1">>>>
    /\ Prefs.active_state = 1
    /\ AlarmState = 0

====
